---- MODULE Spec2Model ----
(***************************************************************************)
(* A model of cyclical_lr.py: the CyclicLR keras callback, its triangular  *)
(* cycle function and its name registry.                                   *)
(*                                                                         *)
(* Learning rates and the decay factor are Python floats in the program;   *)
(* here they are exact rationals [n |-> numerator, d |-> denominator > 0]  *)
(* in lowest terms, so that two rates are equal exactly when the records   *)
(* are equal.  Rounding error of the float arithmetic is not modelled.     *)
(* `/' is Python 3 true division, `//' is Python floor division.           *)
(***************************************************************************)
EXTENDS Integers, Sequences, FiniteSets, TLC

VARIABLES
    pc,             \* where the host program is: "new", "idle", "epoch", "raised", "crashed"
    stepsize,       \* self.stepsize
    max_lr,         \* self.max_lr
    min_lr,         \* self.min_lr
    epoch_counter,  \* self.epoch_counter
    decay,          \* self.decay
    func,           \* self.func: the cycle function the scheduler calls
    lr,             \* self.model.optimizer.lr, the backend variable K.set_value writes
    logs,           \* the logs dict of the current epoch, as a set of <<key, value>>
    ret,            \* what the last cycle() call returned: <<>> is None, <<v>> a value v
    error,          \* the exception that ended the program: <<>> or <<type, message>>
    written,        \* history: the rates cycle() passed to K.set_value, in order
    begun,          \* history: the on_epoch_begin calls that returned
    args            \* history: the arguments __init__ was called with

vars == <<pc, stepsize, max_lr, min_lr, epoch_counter, decay, func, lr, logs,
          ret, error, written, begun, args>>

----------------------------------------------------------------------------
(* Bounds of the model. *)

\* the host trains for at most this many epochs
MaxEpochs == 9

\* the positive stepsizes tried are 1 .. MaxStepsize
MaxStepsize == 4

----------------------------------------------------------------------------
(* Exact rational arithmetic standing for Python float arithmetic. *)

Abs(i) == IF i < 0 THEN -i ELSE i

RECURSIVE GCD(_, _)
GCD(a, b) == IF b = 0 THEN a ELSE GCD(b, a % b)

\* floor(a / b) for integers, b # 0
FloorDiv(a, b) == IF b > 0 THEN a \div b ELSE (-a) \div (-b)

\* the rational n / d in lowest terms, d # 0
Rat(n, d) ==
    LET g == GCD(Abs(n), Abs(d))
        s == IF d < 0 THEN -1 ELSE 1
    IN  [n |-> (s * n) \div g, d |-> (s * d) \div g]

RInt(i) == [n |-> i, d |-> 1]
RAdd(a, b) == Rat(a.n * b.d + b.n * a.d, a.d * b.d)
RSub(a, b) == Rat(a.n * b.d - b.n * a.d, a.d * b.d)
RMul(a, b) == Rat(a.n * b.n, a.d * b.d)
RLess(a, b) == a.n * b.d < b.n * a.d
RLeq(a, b) == a.n * b.d <= b.n * a.d
RAbs(a) == [n |-> Abs(a.n), d |-> a.d]
RMax(a, b) == IF RLess(a, b) THEN b ELSE a
RFloor(a) == RInt(FloorDiv(a.n, a.d))

----------------------------------------------------------------------------
(* CyclicLR.triangular, one operator per statement of its body. *)

\* faulty variant of cycle_of: the cycles are counted from 0, the `1 +' is lost
cycle_of_zero_based(c, s) == RFloor(RInt(FloorDiv(c, 2 * s)))

\* cycle = np.floor(1 + epoch_counter//(2* stepsize)); s # 0
cycle_of(c, s) == RFloor(RInt(1 + FloorDiv(c, 2 * s)))

\* faulty variant of x_of: the np.abs is lost
x_of_noabs(c, s, cyc) == RAdd(RSub(Rat(c, s), RMul(RInt(2), cyc)), RInt(1))

\* x = np.abs(epoch_counter/stepsize - 2 * cycle +1); s # 0
x_of(c, s, cyc) == RAbs(RAdd(RSub(Rat(c, s), RMul(RInt(2), cyc)), RInt(1)))

\* min_lr -= (min_lr * (decay * cycle)) if (min_lr * (decay * cycle)) < min_lr else 0
decayed_min(lo, dk, cyc) ==
    LET cut == RMul(lo, RMul(dk, cyc))
    IN  RSub(lo, IF RLess(cut, lo) THEN cut ELSE RInt(0))

\* faulty variant of decayed_max: max_lr is not decayed
decayed_max_undecayed(hi, dk, cyc) == hi

\* max_lr -= (max_lr * (decay * cycle))
decayed_max(hi, dk, cyc) == RSub(hi, RMul(hi, RMul(dk, cyc)))

\* return (min_lr + (max_lr - min_lr) * max(0, (1-x)))
interpolate(lo, hi, x) ==
    RAdd(lo, RMul(RSub(hi, lo), RMax(RInt(0), RSub(RInt(1), x))))

\* triangular(epoch_counter, stepsize, min_lr, max_lr, decay); s # 0
triangular(c, s, lo, hi, dk) ==
    LET cyc == cycle_of(c, s)
        x   == x_of(c, s, cyc)
    IN  interpolate(decayed_min(lo, dk, cyc), decayed_max(hi, dk, cyc), x)

\* epoch_counter//(2* stepsize) raises ZeroDivisionError exactly when stepsize is 0
triangular_raises(c, s, lo, hi, dk) == s = 0

----------------------------------------------------------------------------
(* The registry of cycle functions and the message of the lookup error. *)

\* the function object CyclicLR.triangular
TriangularFn == "CyclicLR.triangular"

\* no function: the value of self.func when __init__ never assigned it
NoFn == "unassigned"

\* available_funcs = {'triangular' : triangular}
available_funcs == [name \in {"triangular"} |-> TriangularFn]

\* list(d): the keys of a dict, in order
KeyList(d) ==
    CHOOSE q \in [1 .. Cardinality(DOMAIN d) -> DOMAIN d] :
        \A i, j \in DOMAIN q : i # j => q[i] # q[j]

\* sep.join(items), as a sequence of words
RECURSIVE Join(_, _)
Join(sep, items) ==
    IF Len(items) = 0 THEN <<>>
    ELSE IF Len(items) = 1 THEN <<items[1]>>
    ELSE <<items[1], sep>> \o Join(sep, Tail(items))

\* the message literal of __init__, word by word; "{}" is a replacement field
MsgTemplate ==
    <<"could", "not", "find", "the", "function", ":", "{}", "functions", "are",
      "available.", "Please", "use", "one", "of", "those", "arguments", "or",
      "provide", "your", "own", "function,", "which", "accepts", "the",
      "followin", "args:", "epoch_counter,", "stepsize,", "min_lr,", "max_lr,",
      "decay">>

\* str.format: the k-th "{}" takes the k-th positional argument (a sequence of
\* words); positional arguments beyond the last field are ignored
RECURSIVE Format(_, _)
Format(tmpl, fargs) ==
    IF tmpl = <<>> THEN <<>>
    ELSE IF Head(tmpl) = "{}"
         THEN Head(fargs) \o Format(Tail(tmpl), Tail(fargs))
         ELSE <<Head(tmpl)>> \o Format(Tail(tmpl), fargs)

\* msg = """...""".format(cycle_function, ', '.join(list(self.available_funcs)))
UnavailableMsg(name) ==
    Format(MsgTemplate, <<(<<name>>), Join(",", KeyList(available_funcs))>>)

\* self.func(epoch_counter, stepsize, min_lr, max_lr, decay)
Call(f, c, s, lo, hi, dk) ==
    CASE f = TriangularFn -> triangular(c, s, lo, hi, dk)

CallRaises(f, c, s, lo, hi, dk) ==
    CASE f = TriangularFn -> triangular_raises(c, s, lo, hi, dk)

----------------------------------------------------------------------------
(* The inputs the model draws from. *)

\* stepsize: the positive ones, zero and a negative one
Stepsizes == {-5, 0} \cup (1 .. MaxStepsize)

\* <<min_lr, max_lr>>: two ordered pairs and an inverted one
LrPairs ==
    { <<Rat(1, 1000), Rat(6, 1000)>>,
      <<Rat(1, 1000), Rat(1, 100)>>,
      <<Rat(1, 100), Rat(1, 1000)>> }

Decays == { Rat(0, 1), Rat(1, 4), Rat(1, 2), Rat(1, 1), Rat(-1, 10) }

\* cycle_function: a registered name, an unregistered name, a callable
CycleFunctions ==
    { [callable |-> FALSE, value |-> "triangular"],
      [callable |-> FALSE, value |-> "not_a_real_function"],
      [callable |-> TRUE, value |-> TriangularFn] }

\* the learning rate the optimizer was built with
OptimizerLrs == { Rat(1, 100), Rat(1, 1000) }

----------------------------------------------------------------------------
(* The program. *)

Init ==
    /\ pc = "new"
    /\ stepsize = 0
    /\ max_lr = RInt(0)
    /\ min_lr = RInt(0)
    /\ epoch_counter = 0
    /\ decay = RInt(0)
    /\ func = NoFn
    /\ lr \in OptimizerLrs
    /\ logs = {}
    /\ ret = <<>>
    /\ error = <<>>
    /\ written = <<>>
    /\ begun = 0
    /\ args = <<>>

\* CyclicLR.__init__(stepsize, max_lr, min_lr, cycle_function, decay)
CyclicLR_init(s, hi, lo, cf, dk) ==
    /\ pc = "new"
    /\ args' = <<[stepsize |-> s, max_lr |-> hi, min_lr |-> lo,
                  cycle_function |-> cf, decay |-> dk]>>
    /\ stepsize' = s
    /\ max_lr' = hi
    /\ min_lr' = lo
    /\ epoch_counter' = 0
    /\ decay' = dk
    /\ IF cf.callable
       THEN /\ func' = cf.value
            /\ error' = <<>>
            /\ pc' = "idle"
       ELSE IF cf.value \in DOMAIN available_funcs
       THEN /\ func' = available_funcs[cf.value]
            /\ error' = <<>>
            /\ pc' = "idle"
       ELSE /\ func' = NoFn
            /\ error' = <<"CycleFunctionUnavailable", UnavailableMsg(cf.value)>>
            /\ pc' = "raised"
    /\ UNCHANGED <<lr, logs, ret, written, begun>>

\* faulty variant of cycle: the counter advances by 2
cycle_skips ==
    IF CallRaises(func, epoch_counter, stepsize, min_lr, max_lr, decay)
    THEN /\ error' = <<"ZeroDivisionError", <<"integer", "division", "by", "zero">> >>
         /\ UNCHANGED <<lr, epoch_counter, ret, written>>
    ELSE LET new_lr == Call(func, epoch_counter, stepsize, min_lr, max_lr, decay)
         IN  /\ lr' = new_lr
             /\ written' = Append(written, new_lr)
             /\ epoch_counter' = epoch_counter + 2
             /\ ret' = <<>>
             /\ error' = <<>>

\* faulty variant of cycle: the counter is incremented before the rate is computed
cycle_increments_first ==
    IF CallRaises(func, epoch_counter + 1, stepsize, min_lr, max_lr, decay)
    THEN /\ error' = <<"ZeroDivisionError", <<"integer", "division", "by", "zero">> >>
         /\ UNCHANGED <<lr, epoch_counter, ret, written>>
    ELSE LET new_lr == Call(func, epoch_counter + 1, stepsize, min_lr, max_lr, decay)
         IN  /\ lr' = new_lr
             /\ written' = Append(written, new_lr)
             /\ epoch_counter' = epoch_counter + 1
             /\ ret' = <<>>
             /\ error' = <<>>

\* CyclicLR.cycle(); an exception of self.func leaves the call before any write
cycle ==
    IF CallRaises(func, epoch_counter, stepsize, min_lr, max_lr, decay)
    THEN /\ error' = <<"ZeroDivisionError", <<"integer", "division", "by", "zero">> >>
         /\ UNCHANGED <<lr, epoch_counter, ret, written>>
    ELSE LET new_lr == Call(func, epoch_counter, stepsize, min_lr, max_lr, decay)
         IN  /\ lr' = new_lr
             /\ written' = Append(written, new_lr)
             /\ epoch_counter' = epoch_counter + 1
             /\ ret' = <<>>
             /\ error' = <<>>

\* CyclicLR.on_epoch_begin(batch, logs), called by the host with the epoch's
\* fresh logs dict; an exception of cycle() ends the training run
on_epoch_begin ==
    /\ pc = "idle"
    /\ epoch_counter < MaxEpochs
    /\ cycle
    /\ logs' = {}
    /\ pc' = IF error' = <<>> THEN "epoch" ELSE "crashed"
    /\ begun' = IF error' = <<>> THEN begun + 1 ELSE begun
    /\ UNCHANGED <<stepsize, max_lr, min_lr, decay, func, args>>

\* CyclicLR.on_epoch_end(batch, logs): logs['lr'] = K.get_value(...optimizer.lr)
on_epoch_end ==
    /\ pc = "epoch"
    /\ logs' = {kv \in logs : kv[1] # "lr"} \cup {<<"lr", lr>>}
    /\ pc' = "idle"
    /\ UNCHANGED <<stepsize, max_lr, min_lr, epoch_counter, decay, func, lr,
                   ret, error, written, begun, args>>

Construct ==
    \E s \in Stepsizes, p \in LrPairs, cf \in CycleFunctions, dk \in Decays :
        CyclicLR_init(s, p[2], p[1], cf, dk)

Next ==
    \/ Construct
    \/ on_epoch_begin
    \/ on_epoch_end

Spec == Init /\ [][Next]_vars

----------------------------------------------------------------------------
(* Vocabulary of the properties. *)

\* a CyclicLR object exists: __init__ returned
Exists == pc \in {"idle", "epoch", "crashed"}

\* the configuration is one the specification calls valid
ValidConfig ==
    /\ stepsize >= 1
    /\ RLess(RInt(0), min_lr)
    /\ RLess(min_lr, max_lr)
    /\ RLeq(RInt(0), decay)

RECURSIVE RPow(_, _)
RPow(a, k) == IF k = 0 THEN RInt(1) ELSE RMul(a, RPow(a, k - 1))

\* the triangle wave of period 2*s between lo and hi, by its closed form
TriangleWave(c, s, lo, hi) ==
    LET r == c % (2 * s)
    IN  IF r <= s
        THEN RAdd(lo, RMul(RSub(hi, lo), Rat(r, s)))
        ELSE RAdd(lo, RMul(RSub(hi, lo), Rat(2 * s - r, s)))

\* the rate written by the call made at counter value c
WrittenAt(c) == written[c + 1]

Reached(c) == c + 1 <= Len(written)

----------------------------------------------------------------------------
(* C1 *)

\* C1: with a valid configuration and decay = 0, every rate cycle() writes to
\* the optimizer, at every counter value, lies in [min_lr, max_lr].
C1_RateWithinBounds ==
    (Exists /\ ValidConfig /\ decay = RInt(0)) =>
        /\ \A i \in 1 .. Len(written) :
               RLeq(min_lr, written[i]) /\ RLeq(written[i], max_lr)
        /\ epoch_counter >= 1 => (RLeq(min_lr, lr) /\ RLeq(lr, max_lr))

\* a peak of a later cycle has been written with decay = 0
C1_Witness ==
    /\ Exists /\ ValidConfig /\ decay = RInt(0)
    /\ epoch_counter > 2 * stepsize
    /\ pc = "epoch"
    /\ lr = max_lr

----------------------------------------------------------------------------
(* C2 *)

\* C2: with decay = 0 the rates written are the triangle wave of period
\* 2*stepsize: lo + (hi-lo)*r/s for r = c mod 2s <= s, lo + (hi-lo)*(2s-r)/s
\* beyond; lo at c = 0, hi at c = s, equal at c and c + 2s; and stepsize 4,
\* lo 0.001, hi 0.006 gives 0.001, 0.0035, 0.006, 0.0035, 0.001 at 0, 2, 4, 6, 8.
C2_TriangleWave ==
    (Exists /\ ValidConfig /\ decay = RInt(0)) =>
        /\ \A c \in 0 .. Len(written) - 1 :
               /\ WrittenAt(c) = TriangleWave(c, stepsize, min_lr, max_lr)
               /\ Reached(c + 2 * stepsize) => WrittenAt(c + 2 * stepsize) = WrittenAt(c)
        /\ Reached(0) => WrittenAt(0) = min_lr
        /\ Reached(stepsize) => WrittenAt(stepsize) = max_lr
        /\ (stepsize = 4 /\ min_lr = Rat(1, 1000) /\ max_lr = Rat(6, 1000)) =>
               /\ Reached(0) => WrittenAt(0) = Rat(1, 1000)
               /\ Reached(2) => WrittenAt(2) = Rat(35, 10000)
               /\ Reached(4) => WrittenAt(4) = Rat(6, 1000)
               /\ Reached(6) => WrittenAt(6) = Rat(35, 10000)
               /\ Reached(8) => WrittenAt(8) = Rat(1, 1000)

\* the example run has gone through its whole first period
C2_Witness ==
    /\ Exists /\ ValidConfig /\ decay = RInt(0)
    /\ stepsize = 4 /\ min_lr = Rat(1, 1000) /\ max_lr = Rat(6, 1000)
    /\ Reached(8)
    /\ lr = Rat(1, 1000)

----------------------------------------------------------------------------
(* C3 *)

\* C3: for decay > 0 the decayed bounds triangular uses in the current cycle
\* satisfy effective_min <= effective_max, and the rate lies between them.
C3_EffectiveBoundsOrdered ==
    (Exists /\ ValidConfig /\ RLess(RInt(0), decay) /\ epoch_counter >= 1) =>
        LET cyc == cycle_of(epoch_counter - 1, stepsize)
            lo  == decayed_min(min_lr, decay, cyc)
            hi  == decayed_max(max_lr, decay, cyc)
        IN  /\ RLeq(lo, hi)
            /\ RLeq(lo, lr)
            /\ RLeq(lr, hi)

----------------------------------------------------------------------------
(* C4 *)

\* C4: for decay in [0, 1] the rate at the midpoint of cycle k, counter
\* (2k-1)*stepsize, is max_lr * (1 - decay)^(k-1); throughout the first
\* cycle the rate is the one decay = 0 gives.
C4_GeometricPeak ==
    (Exists /\ ValidConfig /\ RLeq(decay, RInt(1))) =>
        /\ \A k \in 1 .. MaxEpochs :
               Reached((2 * k - 1) * stepsize) =>
                   WrittenAt((2 * k - 1) * stepsize)
                       = RMul(max_lr, RPow(RSub(RInt(1), decay), k - 1))
        /\ \A c \in 0 .. 2 * stepsize - 1 :
               Reached(c) =>
                   WrittenAt(c) = triangular(c, stepsize, min_lr, max_lr, RInt(0))

----------------------------------------------------------------------------
(* C5 *)

\* C5: construction with a name that is not registered raises
\* CycleFunctionUnavailable, substitutes no function, and the message
\* enumerates every registered name (so it contains "triangular").
C5_UnknownNameMessage ==
    (args # <<>> /\ ~args[1].cycle_function.callable
                 /\ args[1].cycle_function.value \notin DOMAIN available_funcs) =>
        /\ pc = "raised"
        /\ error # <<>>
        /\ error[1] = "CycleFunctionUnavailable"
        /\ func = NoFn
        /\ \A name \in DOMAIN available_funcs :
               \E i \in 1 .. Len(error[2]) : error[2][i] = name

----------------------------------------------------------------------------
(* C6 *)

\* C6: construction with stepsize < 1, max_lr <= min_lr or decay < 0 fails
\* with a configuration error before any scheduler exists, and no cycle()
\* call is reached with such a configuration.
C6_InvalidConfigRejected ==
    (args # <<>> /\ ~ValidConfig) =>
        /\ ~Exists
        /\ error # <<>>
        /\ error[1] = "ConfigurationError"
        /\ written = <<>>

----------------------------------------------------------------------------
(* C7 *)

\* C7: the counter is 0 after construction, grows by exactly 1 with every
\* cycle() call, is left alone by on_epoch_end, never decreases or resets,
\* and after n on_epoch_begin events it is n.
C7_CounterAdvancesByOne ==
    /\ [](Exists => (epoch_counter = begun /\ epoch_counter = Len(written)))
    /\ [][ /\ (pc = "new" /\ Exists') => epoch_counter' = 0
           /\ (pc = "idle" /\ pc' = "epoch") => epoch_counter' = epoch_counter + 1
           /\ pc = "epoch" => epoch_counter' = epoch_counter
           /\ Exists => epoch_counter' >= epoch_counter ]_vars

\* several epochs have begun and ended
C7_Witness ==
    /\ Exists
    /\ pc = "idle"
    /\ begun >= 3
    /\ epoch_counter = 3
    /\ logs # {}

----------------------------------------------------------------------------
(* C8 *)

\* C8: at the start of training the optimizer's rate is set to exactly
\* min_lr, whatever the decay: the first rate the optimizer is given in a
\* training run is min_lr.
C8_FirstRateIsFloor ==
    (Exists /\ ValidConfig /\ begun >= 1) => WrittenAt(0) = min_lr

----------------------------------------------------------------------------
(* C9 *)

\* C9: for decay > 0 the rate at the peak of cycle k+1 is strictly less than
\* the rate at the peak of cycle k, as long as the peak of cycle k is not yet
\* down to zero.
C9_PeaksDecrease ==
    (Exists /\ ValidConfig /\ RLess(RInt(0), decay)) =>
        \A k \in 1 .. MaxEpochs :
            (/\ Reached((2 * k + 1) * stepsize)
             /\ RLess(RInt(0), WrittenAt((2 * k - 1) * stepsize))) =>
                RLess(WrittenAt((2 * k + 1) * stepsize),
                      WrittenAt((2 * k - 1) * stepsize))

\* two successive positive peaks have been written under a positive decay
C9_Witness ==
    /\ Exists /\ ValidConfig /\ RLess(RInt(0), decay)
    /\ Reached(3 * stepsize)
    /\ RLess(RInt(0), WrittenAt(3 * stepsize))
    /\ RLess(WrittenAt(3 * stepsize), WrittenAt(stepsize))

----------------------------------------------------------------------------
(* C10 *)

\* the part of C10 about the write, the counter and the configuration
CycleEffect ==
    /\ epoch_counter = Len(written)
    /\ \A n \in 1 .. Len(written) :
           written[n] = Call(func, n - 1, stepsize, min_lr, max_lr, decay)
    /\ lr = written[Len(written)]
    /\ stepsize = args[1].stepsize
    /\ min_lr = args[1].min_lr
    /\ max_lr = args[1].max_lr
    /\ decay = args[1].decay

====
